---- MODULE Spec2Model ----
(***************************************************************************)
(* A model of the fixed-arena allocator of yochidros/MAC: the arena with   *)
(* its in-band block headers, the circular free list, the allocation       *)
(* registry, and the operations alloc, free and realloc.                   *)
(*                                                                         *)
(* Addresses and sizes are byte quantities.  The arena is scaled down from *)
(* 1 MiB to ArenaUnits * 16 bytes and the machine word from 64 bits to     *)
(* WordBits bits; everything else is the code's arithmetic.                *)
(***************************************************************************)
EXTENDS Integers, Sequences, FiniteSets, TLC

\* ---------------------------------------------------------------- bounds
ArenaUnits == 9
WordBits == 9
MaxCalls == 3

\* ------------------------------------------------------------- constants
ALIGN == 16
HEADER_SIZE == 32
MIN_SPLIT == HEADER_SIZE + ALIGN
NULL == 0

Mod == 2 ^ WordBits
ARENA_SIZE == ArenaUnits * ALIGN
ArenaBase == ALIGN
ArenaEnd == ArenaBase + ARENA_SIZE

\* the addresses at which a block header can lie
Slots == {ArenaBase + ALIGN * k : k \in 0 .. (ArenaUnits - 1)}

\* a dereference of a Block pointer stays inside the arena
Valid(a) == a \in Slots /\ a + HEADER_SIZE <= ArenaEnd

\* the request sizes the callers pass: 0, sizes needing blocks of 48 and of
\* 64 bytes, one beyond the capacity, and two for which size + header_size
\* does not fit the machine word
Sizes == {0, ALIGN, 30, ARENA_SIZE + 1, Mod - 32, Mod - 1}

VARIABLES
    mem,              \* the arena: the Block header fields stored at each slot
    head,             \* FREE_LIST_HEAD
    reg,              \* ALLOCATED, the registry Vec
    st,               \* "ok", or how the process ended: "fault", "panic", "hang"
    overflow_checks,  \* the build profile: arithmetic overflow panics (debug) or wraps (release)
    live,             \* the payload pointers the caller holds, with their requested sizes
    last,             \* the last call and what it returned
    calls,            \* the calls made since the heap was first found not intact
    thr               \* each thread's position in its call of alloc, and its locals

vars == <<mem, head, reg, st, overflow_checks, live, last, calls, thr>>

\* e is evaluated once and F applied to its value
Let(e, F(_)) == CHOOSE y \in {F(x) : x \in {e}} : TRUE

Out(m, h, r, s, ret) == [mem |-> m, head |-> h, reg |-> r, st |-> s, ret |-> ret]

\* ----------------------------------------------------------- align_up.rs
Overflows(size) ==
    size + HEADER_SIZE >= Mod \/ size + HEADER_SIZE + ALIGN - 1 >= Mod

\* the sizes for which size + header_size, aligned up, fits the machine word
InRange == {n \in Sizes : ~Overflows(n)}

align_up(x, align) ==
    LET y == (x + align - 1) % Mod
    IN  y - (y % align)

Needed(size) == align_up((size + HEADER_SIZE) % Mod, ALIGN)

\* ---------------------------------------------------------------- lib.rs
\* init_arena as it would be without the write of free = true
init_arena_without_free ==
    LET base_ptr == ArenaBase
        aligned == align_up(base_ptr, ALIGN)
        zero == [a \in Slots |-> [size |-> 0, next |-> NULL, free |-> FALSE]]
    IN  [mem |-> [zero EXCEPT ![aligned] =
                     [size |-> ARENA_SIZE - (aligned - base_ptr),
                      next |-> aligned, free |-> FALSE]],
         head |-> aligned]

init_arena ==
    LET base_ptr == ArenaBase
        aligned == align_up(base_ptr, ALIGN)
        zero == [a \in Slots |-> [size |-> 0, next |-> NULL, free |-> FALSE]]
    IN  [mem |-> [zero EXCEPT ![aligned] =
                     [size |-> ARENA_SIZE - (aligned - base_ptr),
                      next |-> aligned, free |-> TRUE]],
         head |-> aligned]

RegAdd(r, b) == Append(r, b)

RegRemove(r, b) ==
    IF \E i \in 1 .. Len(r) : r[i] = b
    THEN LET pos == CHOOSE i \in 1 .. Len(r) :
                        r[i] = b /\ \A j \in 1 .. (i - 1) : r[j] # b
         IN  SubSeq(r, 1, pos - 1) \o SubSeq(r, pos + 1, Len(r))
    ELSE r

\* --------------------------------------------------------------- alloc.rs
split_block(m, h, prev, current, needed) ==
    LET new_block == current + needed
    IN  IF ~Valid(new_block) THEN [mem |-> m, head |-> h, st |-> "fault"]
        ELSE
        Let([m EXCEPT ![new_block].size = m[current].size - needed,
                      ![new_block].free = TRUE], LAMBDA m2 :
        Let([m2 EXCEPT ![new_block].next = m2[current].next], LAMBDA m3 :
        Let(IF prev = current
            THEN [m3 EXCEPT ![new_block].next = new_block]
            ELSE [m3 EXCEPT ![prev].next = new_block], LAMBDA m4 :
        [mem |-> [m4 EXCEPT ![current].size = needed],
         head |-> IF current = h THEN new_block ELSE h,
         st |-> "ok"])))

\* the first-fit loop: the block taken and its list predecessor
RECURSIVE AllocWalk(_, _, _, _, _, _)
AllocWalk(m, h, prev, current, needed, fuel) ==
    IF ~Valid(current) THEN [k |-> "fault", prev |-> prev, current |-> current]
    ELSE IF m[current].free /\ m[current].size >= needed
    THEN [k |-> "found", prev |-> prev, current |-> current]
    ELSE IF current = h THEN [k |-> "none", prev |-> prev, current |-> current]
    ELSE IF fuel = 0 THEN [k |-> "hang", prev |-> prev, current |-> current]
    ELSE AllocWalk(m, h, current, m[current].next, needed, fuel - 1)

\* the block found by the loop is taken: split, or consumed whole
AllocTake(m, h, r, prev, current, needed) ==
    Let([m EXCEPT ![current].free = FALSE], LAMBDA m1 :
    IF m[current].size - needed >= MIN_SPLIT
    THEN Let(split_block(m1, h, prev, current, needed), LAMBDA s :
         IF s.st # "ok" THEN Out(s.mem, s.head, r, s.st, NULL)
         ELSE Out(s.mem, s.head, RegAdd(r, current), "ok", current + HEADER_SIZE))
    ELSE Out([m1 EXCEPT ![prev].next = m1[current].next],
             IF current = h THEN prev ELSE h,
             RegAdd(r, current), "ok", current + HEADER_SIZE))

\* alloc as it would be without the test of size == 0
alloc_without_zero_test(m, h, r, chk, size) ==
    IF chk /\ Overflows(size) THEN Out(m, h, r, "panic", NULL)
    ELSE IF ~Valid(h) THEN Out(m, h, r, "fault", NULL)
    ELSE
    Let(AllocWalk(m, h, h, m[h].next, Needed(size), ArenaUnits + 1), LAMBDA w :
    IF w.k = "none" THEN Out(m, h, r, "ok", NULL)
    ELSE IF w.k # "found" THEN Out(m, h, r, w.k, NULL)
    ELSE AllocTake(m, h, r, w.prev, w.current, Needed(size)))

alloc(m, h, r, chk, size) ==
    IF size = 0 THEN Out(m, h, r, "ok", NULL)
    ELSE IF chk /\ Overflows(size) THEN Out(m, h, r, "panic", NULL)
    ELSE IF ~Valid(h) THEN Out(m, h, r, "fault", NULL)
    ELSE
    Let(AllocWalk(m, h, h, m[h].next, Needed(size), ArenaUnits + 1), LAMBDA w :
    IF w.k = "none" THEN Out(m, h, r, "ok", NULL)
    ELSE IF w.k # "found" THEN Out(m, h, r, w.k, NULL)
    ELSE AllocTake(m, h, r, w.prev, w.current, Needed(size)))

\* ---------------------------------------------------------------- free.rs
\* the splice-point loop: the nodes the freed block goes between
RECURSIVE FreeWalk(_, _, _, _, _, _)
FreeWalk(m, h, block, current, next, fuel) ==
    IF current < block /\ block < next
    THEN [k |-> "ok", current |-> current, next |-> next]
    ELSE IF current >= next /\ (block > current \/ block < next)
    THEN [k |-> "ok", current |-> current, next |-> next]
    ELSE IF ~Valid(next) THEN [k |-> "fault", current |-> current, next |-> next]
    ELSE IF next = h THEN [k |-> "ok", current |-> next, next |-> m[next].next]
    ELSE IF fuel = 0 THEN [k |-> "hang", current |-> current, next |-> next]
    ELSE FreeWalk(m, h, block, next, m[next].next, fuel - 1)

\* the coalescing block: `block` is linked in between `current` and `next`
Coalesce(m2, h, r, block, current, next) ==
    LET next_after == m2[block].next
        fwd == block + m2[block].size = next_after
    IN  IF fwd /\ ~Valid(next) THEN Out(m2, h, r, "fault", NULL)
        ELSE
        \* merging with next block
        Let(IF fwd THEN [m2 EXCEPT ![block].size = @ + m2[next].size] ELSE m2,
            LAMBDA m3 :
        Let(IF fwd THEN [m3 EXCEPT ![block].next = m3[next].next] ELSE m3,
            LAMBDA m4 :
        Let(IF fwd /\ next_after = h THEN block ELSE h, LAMBDA h4 :
        \* merging with previous block
        Let(current + m4[current].size = block, LAMBDA bwd :
        Let(IF bwd THEN [m4 EXCEPT ![current].size = @ + m4[block].size] ELSE m4,
            LAMBDA m5 :
        Out(IF bwd THEN [m5 EXCEPT ![current].next = m5[block].next] ELSE m5,
            IF bwd /\ h4 = block THEN current ELSE h4,
            r, "ok", NULL))))))

free(m0, h, r0, ptr) ==
    IF ptr = NULL THEN Out(m0, h, r0, "ok", NULL)
    ELSE
    LET block == ptr - HEADER_SIZE
    IN  Let([m0 EXCEPT ![block].free = TRUE], LAMBDA m :
        Let(RegRemove(r0, block), LAMBDA r :
        IF h = NULL
        THEN Out([m EXCEPT ![block].next = block], block, r, "ok", NULL)
        ELSE IF ~Valid(h) THEN Out(m, h, r, "fault", NULL)
        ELSE
        Let(FreeWalk(m, h, block, h, m[h].next, ArenaUnits + 1), LAMBDA w :
        IF w.k # "ok" THEN Out(m, h, r, w.k, NULL)
        ELSE
        \* insert
        Let([m EXCEPT ![block].next = w.next], LAMBDA m1 :
        Let([m1 EXCEPT ![w.current].next = block], LAMBDA m2 :
        Coalesce(m2, h, r, block, w.current, w.next))))))

\* ------------------------------------------------------------- realloc.rs
RECURSIVE RemoveWalk(_, _, _, _, _)
RemoveWalk(m, h, block, current, fuel) ==
    IF ~Valid(current) THEN [k |-> "fault", current |-> current]
    ELSE IF m[current].next = block THEN [k |-> "found", current |-> current]
    ELSE IF m[current].next = h THEN [k |-> "none", current |-> current]
    ELSE IF fuel = 0 THEN [k |-> "hang", current |-> current]
    ELSE RemoveWalk(m, h, block, m[current].next, fuel - 1)

remove_free_block(m, h, block) ==
    IF h = NULL THEN [mem |-> m, head |-> h, st |-> "ok"]
    ELSE IF ~Valid(h) THEN [mem |-> m, head |-> h, st |-> "fault"]
    ELSE IF h = block /\ m[h].next = h THEN [mem |-> m, head |-> NULL, st |-> "ok"]
    ELSE
    Let(RemoveWalk(m, h, block, h, ArenaUnits + 1), LAMBDA w :
    IF w.k = "none" THEN [mem |-> m, head |-> h, st |-> "ok"]
    ELSE IF w.k # "found" THEN [mem |-> m, head |-> h, st |-> w.k]
    ELSE [mem |-> [m EXCEPT ![w.current].next = m[block].next],
          head |-> IF block = h THEN w.current ELSE h,
          st |-> "ok"])

\* the tail of `block` beyond `needed` bytes is made a block of its own and
\* handed to free
SplitTail(m, h, r, block, needed, remainder) ==
    LET new_block == block + needed
    IN  IF ~Valid(new_block) THEN Out(m, h, r, "fault", NULL)
        ELSE
        Let([m EXCEPT ![new_block].size = remainder,
                      ![new_block].free = TRUE,
                      ![new_block].next = NULL], LAMBDA m3 :
        Let([m3 EXCEPT ![block].size = needed], LAMBDA m4 :
        free(m4, h, r, new_block + HEADER_SIZE)))

\* the neighbour `next` is unlinked and its bytes are added to `block`
Absorb(m, h, r, block, next, needed) ==
    Let(remove_free_block(m, h, next), LAMBDA u :
    IF u.st # "ok" THEN Out(u.mem, u.head, r, u.st, 0)
    ELSE
    Let([u.mem EXCEPT ![block].size = @ + u.mem[next].size], LAMBDA m1 :
    IF m1[block].size >= needed
    THEN IF m1[block].size - needed >= MIN_SPLIT
         THEN Let(SplitTail(m1, u.head, r, block, needed,
                            m1[block].size - needed), LAMBDA f :
              Out(f.mem, f.head, f.reg, f.st, 1))
         ELSE Out(m1, u.head, r, "ok", 1)
    ELSE Out(m1, u.head, r, "ok", 0)))

\* ret is 1 for true and 0 for false
try_in_place_extend_next_free_block(m, h, r, block, needed) ==
    LET base == ArenaBase
        arena_end == base + ARENA_SIZE
        block_end == block + m[block].size
    IN  IF block_end < base \/ block_end >= arena_end THEN Out(m, h, r, "ok", 0)
        ELSE IF block_end = block THEN Out(m, h, r, "ok", 0)
        ELSE IF ~Valid(block_end) THEN Out(m, h, r, "fault", 0)
        ELSE IF ~m[block_end].free THEN Out(m, h, r, "ok", 0)
        ELSE Absorb(m, h, r, block, block_end, needed)

Min(a, b) == IF a <= b THEN a ELSE b

\* the fallback of a grow: allocate, copy, free the old block
Relocate(m, h, r, chk, ptr, new_size, old_data) ==
    Let(alloc(m, h, r, chk, new_size), LAMBDA a :
    IF a.st # "ok" \/ a.ret = NULL THEN a
    ELSE IF \/ ptr + Min(old_data, new_size) > ArenaEnd
            \/ a.ret + Min(old_data, new_size) > ArenaEnd
    THEN Out(a.mem, a.head, a.reg, "fault", NULL)
    ELSE
    Let(free(a.mem, a.head, RegRemove(a.reg, ptr - HEADER_SIZE), ptr), LAMBDA f :
    Out(f.mem, f.head, f.reg, f.st, a.ret)))

\* realloc as it would be without the test of new_size == 0
realloc_without_zero_test(m, h, r, chk, ptr, new_size) ==
    IF ptr = NULL THEN alloc(m, h, r, chk, new_size)
    ELSE IF chk /\ Overflows(new_size) THEN Out(m, h, r, "panic", NULL)
    ELSE
    LET header_size == HEADER_SIZE
        needed == Needed(new_size)
        block == ptr - header_size
        old_size == m[block].size
        old_data == (old_size - header_size) % Mod
    IN  IF chk /\ old_size < header_size THEN Out(m, h, r, "panic", NULL)
        ELSE IF old_size >= needed
        THEN IF old_size - needed >= MIN_SPLIT
             THEN Let(SplitTail(m, h, r, block, needed, old_size - needed),
                      LAMBDA f : Out(f.mem, f.head, f.reg, f.st, ptr))
             ELSE Out(m, h, r, "ok", ptr)
        ELSE
        Let(try_in_place_extend_next_free_block(m, h, r, block, needed),
            LAMBDA e :
        IF e.st # "ok" THEN Out(e.mem, e.head, e.reg, e.st, NULL)
        ELSE IF e.ret = 1 THEN Out(e.mem, e.head, e.reg, "ok", ptr)
        ELSE Relocate(e.mem, e.head, e.reg, chk, ptr, new_size, old_data))

realloc(m, h, r, chk, ptr, new_size) ==
    IF ptr = NULL THEN alloc(m, h, r, chk, new_size)
    ELSE IF new_size = 0 THEN free(m, h, r, ptr)
    ELSE IF chk /\ Overflows(new_size) THEN Out(m, h, r, "panic", NULL)
    ELSE
    LET header_size == HEADER_SIZE
        needed == Needed(new_size)
        block == ptr - header_size
        old_size == m[block].size
        old_data == (old_size - header_size) % Mod
    IN  IF chk /\ old_size < header_size THEN Out(m, h, r, "panic", NULL)
        ELSE IF old_size >= needed
        THEN IF old_size - needed >= MIN_SPLIT
             THEN Let(SplitTail(m, h, r, block, needed, old_size - needed),
                      LAMBDA f : Out(f.mem, f.head, f.reg, f.st, ptr))
             ELSE Out(m, h, r, "ok", ptr)
        ELSE
        Let(try_in_place_extend_next_free_block(m, h, r, block, needed),
            LAMBDA e :
        IF e.st # "ok" THEN Out(e.mem, e.head, e.reg, e.st, NULL)
        ELSE IF e.ret = 1 THEN Out(e.mem, e.head, e.reg, "ok", ptr)
        ELSE Relocate(e.mem, e.head, e.reg, chk, ptr, new_size, old_data))

\* ------------------------------------------------------ the heap as a whole
\* the nodes met by following next from the head
RECURSIVE Reach(_, _, _)
Reach(m, a, seen) ==
    IF ~Valid(a) \/ a \in seen THEN seen
    ELSE Reach(m, m[a].next, seen \cup {a})

ListNodes(m, h) == Reach(m, h, {})

BlockOf(p) == p - HEADER_SIZE

Overlap(a, sa, b, sb) == a < b + sb /\ b < a + sa

\* the heap is intact while every caller's payload lies inside its own block
\* and neither another live block nor a free-list block covers bytes of it.
\* Once that is lost the headers lie in memory the caller writes, and what
\* they hold is no longer decided by the allocator.
Intact(m, h, lv) ==
    /\ \A p \in DOMAIN lv :
          /\ m[BlockOf(p)].size >= HEADER_SIZE
          /\ p + lv[p] <= BlockOf(p) + m[BlockOf(p)].size
    /\ \A p, q \in DOMAIN lv :
          p # q => ~Overlap(BlockOf(p), m[BlockOf(p)].size,
                            BlockOf(q), m[BlockOf(q)].size)
    /\ \A p \in DOMAIN lv : \A f \in ListNodes(m, h) :
          (f # BlockOf(p) /\ m[f].free)
              => ~Overlap(BlockOf(p), m[BlockOf(p)].size, f, m[f].size)

\* the model follows the program without limit while the heap is intact,
\* and for MaxCalls further calls once it is not
Running == st = "ok" /\ ((calls = 0 /\ Intact(mem, head, live)) \/ calls < MaxCalls)

Count == calls' = IF calls = 0 /\ Intact(mem, head, live) THEN 0 ELSE calls + 1

\* the threads that share the allocator's statics
Threads == {"t1", "t2"}

\* a thread outside any call; ret is what its last call returned
Idle(ret) == [pc |-> "idle", n |-> 0, needed |-> 0, prev |-> NULL,
              current |-> NULL, ret |-> ret]

Init ==
    /\ mem = init_arena.mem
    /\ head = init_arena.head
    /\ reg = <<>>
    /\ st = "ok"
    /\ overflow_checks \in BOOLEAN
    /\ live = <<>>
    /\ last = [op |-> "init", ptr |-> NULL, n |-> 0, ret |-> NULL]
    /\ calls = 0
    /\ thr = [t \in Threads |-> Idle(NULL)]

Holds(p, n) == [q \in DOMAIN live \cup {p} |-> IF q = p THEN n ELSE live[q]]
Drops(p) == [q \in DOMAIN live \ {p} |-> live[q]]

Alloc(n) ==
    /\ Running
    /\ \E o \in {alloc(mem, head, reg, overflow_checks, n)} :
           /\ mem' = o.mem
           /\ head' = o.head
           /\ reg' = o.reg
           /\ st' = o.st
           /\ live' = IF o.st = "ok" /\ o.ret # NULL THEN Holds(o.ret, n) ELSE live
           /\ last' = [op |-> "alloc", ptr |-> NULL, n |-> n, ret |-> o.ret]
    /\ Count
    /\ UNCHANGED <<overflow_checks, thr>>

Free(p) ==
    /\ Running
    /\ p \in DOMAIN live \cup {NULL}
    /\ \E o \in {free(mem, head, reg, p)} :
           /\ mem' = o.mem
           /\ head' = o.head
           /\ reg' = o.reg
           /\ st' = o.st
           /\ live' = Drops(p)
           /\ last' = [op |-> "free", ptr |-> p, n |-> 0, ret |-> NULL]
    /\ Count
    /\ UNCHANGED <<overflow_checks, thr>>

Realloc(p, n) ==
    /\ Running
    /\ p \in DOMAIN live \cup {NULL}
    /\ \E o \in {realloc(mem, head, reg, overflow_checks, p, n)} :
           /\ mem' = o.mem
           /\ head' = o.head
           /\ reg' = o.reg
           /\ st' = o.st
           /\ live' = IF o.st # "ok" THEN live
                      ELSE IF p = NULL
                      THEN (IF o.ret # NULL THEN Holds(o.ret, n) ELSE live)
                      ELSE IF n = 0 THEN Drops(p)
                      ELSE IF o.ret = NULL THEN live
                      ELSE [q \in (DOMAIN live \ {p}) \cup {o.ret} |->
                               IF q = o.ret THEN n ELSE live[q]]
           /\ last' = [op |-> "realloc", ptr |-> p, n |-> n, ret |-> o.ret]
    /\ Count
    /\ UNCHANGED <<overflow_checks, thr>>

Next ==
    \/ \E n \in Sizes : Alloc(n)
    \/ \E p \in DOMAIN live \cup {NULL} : Free(p)
    \/ \E p \in DOMAIN live \cup {NULL}, n \in Sizes : Realloc(p, n)

Spec == Init /\ [][Next]_vars

\* the calls whose size plus the header fits the machine word
NextInRange ==
    \/ \E n \in InRange : Alloc(n)
    \/ \E p \in DOMAIN live \cup {NULL} : Free(p)
    \/ \E p \in DOMAIN live \cup {NULL}, n \in InRange : Realloc(p, n)

SpecInRange == Init /\ [][NextInRange]_vars
\* ------------------------------------------------- alloc, thread by thread
\* The statics are UnsafeCells declared Sync and alloc takes no lock, so the
\* reads and writes of two threads' calls interleave.  A call is followed
\* through its reads of the head and of the first node, each turn of its
\* loop, and the taking of the block it found.
Begin(t, n) ==
    /\ st = "ok"
    /\ thr[t].pc = "idle"
    /\ n > 0
    /\ thr' = [thr EXCEPT ![t] = [pc |-> "read", n |-> n, needed |-> Needed(n),
                                  prev |-> NULL, current |-> NULL, ret |-> NULL]]
    /\ UNCHANGED <<mem, head, reg, st, overflow_checks, live, last, calls>>

Read(t) ==
    /\ st = "ok"
    /\ thr[t].pc = "read"
    /\ IF ~Valid(head)
       THEN /\ st' = "fault"
            /\ UNCHANGED thr
       ELSE /\ thr' = [thr EXCEPT ![t].pc = "test", ![t].prev = head,
                                  ![t].current = mem[head].next]
            /\ UNCHANGED st
    /\ UNCHANGED <<mem, head, reg, overflow_checks, live, last, calls>>

Test(t) ==
    /\ st = "ok"
    /\ thr[t].pc = "test"
    /\ LET current == thr[t].current
       IN  IF ~Valid(current)
           THEN /\ st' = "fault"
                /\ UNCHANGED <<thr, last>>
           ELSE /\ UNCHANGED st
                /\ IF mem[current].free /\ mem[current].size >= thr[t].needed
                   THEN /\ thr' = [thr EXCEPT ![t].pc = "take"]
                        /\ UNCHANGED last
                   ELSE IF current = head
                   THEN /\ thr' = [thr EXCEPT ![t] = Idle(NULL)]
                        /\ last' = [op |-> "alloc", ptr |-> NULL,
                                    n |-> thr[t].n, ret |-> NULL]
                   ELSE /\ thr' = [thr EXCEPT ![t].prev = current,
                                              ![t].current = mem[current].next]
                        /\ UNCHANGED last
    /\ UNCHANGED <<mem, head, reg, overflow_checks, live, calls>>

Take(t) ==
    /\ st = "ok"
    /\ thr[t].pc = "take"
    /\ \E o \in {AllocTake(mem, head, reg, thr[t].prev, thr[t].current,
                           thr[t].needed)} :
           /\ mem' = o.mem
           /\ head' = o.head
           /\ reg' = o.reg
           /\ st' = o.st
           /\ live' = IF o.st = "ok" THEN Holds(o.ret, thr[t].n) ELSE live
           /\ last' = [op |-> "alloc", ptr |-> NULL, n |-> thr[t].n, ret |-> o.ret]
           /\ thr' = [thr EXCEPT ![t] = Idle(o.ret)]
    /\ UNCHANGED <<overflow_checks, calls>>

NextThreads ==
    \E t \in Threads :
        \/ \E n \in {ALIGN, 30} : Begin(t, n)
        \/ Read(t)
        \/ Test(t)
        \/ Take(t)

SpecThreads == Init /\ [][NextThreads]_vars

\* ----------------------------------------------------------------- claims
\* the blocks met by walking the arena from its base, each block ending
\* where the next begins
RECURSIVE Phys(_, _, _)
Phys(m, a, acc) ==
    IF a \notin Slots \/ a \in acc THEN acc
    ELSE IF m[a].size = 0 THEN acc \cup {a}
    ELSE Phys(m, a + m[a].size, acc \cup {a})

PhysBlocks(m) == Phys(m, ArenaBase, {})

LiveBlocks == {BlockOf(p) : p \in DOMAIN live}

FreeNodes(m, h) == {f \in ListNodes(m, h) : m[f].free}

\* C1: any two distinct live allocations occupy disjoint blocks, hence
\* disjoint payload ranges, and no free-list block covers bytes of a live
\* allocation.
C1_Disjointness ==
    st = "ok" =>
        /\ \A p, q \in DOMAIN live :
              p # q => /\ ~Overlap(BlockOf(p), mem[BlockOf(p)].size,
                                   BlockOf(q), mem[BlockOf(q)].size)
                       /\ ~Overlap(p, live[p], q, live[q])
        /\ \A p \in DOMAIN live : \A f \in FreeNodes(mem, head) :
              f # BlockOf(p)
                  => ~Overlap(BlockOf(p), mem[BlockOf(p)].size, f, mem[f].size)
\* C2: a realloc(p, n) with p non-null and n > 0 that returns null leaves
\* the state as it was: the block of p allocated with its size, and the free
\* list (head, members, their sizes and next links) unchanged.
C2_FailedGrowPreservesOriginal ==
    [][(/\ st' = "ok"
        /\ last'.op = "realloc"
        /\ last'.ptr # NULL
        /\ last'.n > 0
        /\ last'.ret = NULL)
       => (/\ mem'[BlockOf(last'.ptr)].size = mem[BlockOf(last'.ptr)].size
           /\ mem'[BlockOf(last'.ptr)].free = mem[BlockOf(last'.ptr)].free
           /\ head' = head
           /\ ListNodes(mem', head') = ListNodes(mem, head)
           /\ \A f \in ListNodes(mem, head) :
                 /\ mem'[f].size = mem[f].size
                 /\ mem'[f].next = mem[f].next)]_vars

\* C3: the blocks reachable from the head are exactly the blocks that are
\* free, and the head is null exactly when no block is free.
C3_FreeListMembership ==
    st = "ok" =>
        /\ ListNodes(mem, head) = {b \in PhysBlocks(mem) : mem[b].free}
        /\ (head = NULL) <=> (\A b \in PhysBlocks(mem) : ~mem[b].free)

\* C4: the free-list blocks and the live allocated blocks tile the arena:
\* the first lies at the base, each ends where another begins or at the
\* arena end, none overlaps another, and the sizes sum to the capacity.
RECURSIVE SumSizes(_, _)
SumSizes(m, B) ==
    IF B = {} THEN 0
    ELSE LET b == CHOOSE x \in B : TRUE
         IN  m[b].size + SumSizes(m, B \ {b})

C4_PhysicalLayout ==
    st = "ok" =>
        LET B == ListNodes(mem, head) \cup LiveBlocks
        IN  /\ ArenaBase \in B
            /\ \A b \in B : b + mem[b].size \in B \cup {ArenaEnd}
            /\ \A a, b \in B :
                  a # b => ~Overlap(a, mem[a].size, b, mem[b].size)
            /\ SumSizes(mem, B) = ARENA_SIZE

\* C5: following next from a non-null head comes back to the head, and
\* along that cycle the addresses ascend except at exactly one link, the
\* one from the highest node back to the lowest.
C5_FreeListOrder ==
    (st = "ok" /\ head # NULL) =>
        LET L == ListNodes(mem, head)
        IN  /\ Valid(head)
            /\ \A a \in L : mem[a].next \in L
            /\ \E a \in L : mem[a].next = head
            /\ Cardinality({a \in L : mem[a].next <= a}) = 1
            /\ \A a, b \in L : mem[a].next = mem[b].next => a = b
\* the free-list nodes of the heap o that cover the bytes [a, a + s)
Covering(o, a, s) ==
    {f \in FreeNodes(o.mem, o.head) : f <= a /\ a + s <= f + o.mem[f].size}

\* the heap after free(first) and then free(second)
FreeBoth(first, second) ==
    Let(free(mem, head, reg, first), LAMBDA o :
        IF o.st # "ok" THEN o ELSE free(o.mem, o.head, o.reg, second))

\* what C6 asks of the heap o left by freeing the adjacent blocks a and b
OneBlockAt(o, a, b, s) ==
    /\ o.st = "ok"
    /\ Covering(o, a, s) = {a}
    /\ \A f \in ListNodes(o.mem, o.head) : ~(a < f /\ f < a + s)

\* C6: freeing two live allocations whose blocks are physically adjacent,
\* in either order, leaves exactly one free block covering their combined
\* range, at the address of the lower one, and no other free-list node
\* inside that range.
C6_Coalescing ==
    st = "ok" =>
        \A p, q \in DOMAIN live :
            BlockOf(p) + mem[BlockOf(p)].size = BlockOf(q)
            => LET s == mem[BlockOf(p)].size + mem[BlockOf(q)].size
               IN  /\ OneBlockAt(FreeBoth(p, q), BlockOf(p), BlockOf(q), s)
                   /\ OneBlockAt(FreeBoth(q, p), BlockOf(p), BlockOf(q), s)

\* the heap after alloc(n), free of what it returned, and alloc(n) again
AllocFreeAlloc(n) ==
    Let(alloc(mem, head, reg, overflow_checks, n), LAMBDA a :
    IF a.st # "ok" \/ a.ret = NULL THEN Out(a.mem, a.head, a.reg, "none", NULL)
    ELSE Let(free(a.mem, a.head, a.reg, a.ret), LAMBDA f :
         IF f.st # "ok" THEN f
         ELSE alloc(f.mem, f.head, f.reg, overflow_checks, n)))

\* C7: when alloc(n) returns a non-null p, free(p) followed at once by
\* alloc(n) returns non-null; and freeing a live allocation whose block has
\* size s leaves a free-list block of size at least s.
C7_RoundTrip ==
    st = "ok" =>
        /\ \A n \in Sizes :
              LET o == AllocFreeAlloc(n)
              IN  o.st # "none" => (o.st = "ok" /\ o.ret # NULL)
        /\ \A p \in DOMAIN live :
              LET o == free(mem, head, reg, p)
              IN  /\ o.st = "ok"
                  /\ \E f \in FreeNodes(o.mem, o.head) :
                        o.mem[f].size >= mem[BlockOf(p)].size
NoBlockFree == \A b \in PhysBlocks(mem) : ~mem[b].free

\* C8: in a state in which no block is free, alloc(n) with n > 0 returns
\* null without faulting and without changing the state.
C8_ExhaustedArena ==
    [][(st = "ok" /\ NoBlockFree /\ last'.op = "alloc" /\ last'.n > 0)
       => (/\ st' = "ok"
           /\ last'.ret = NULL
           /\ mem' = mem
           /\ head' = head
           /\ reg' = reg)]_vars

\* C9: alloc(n) with n greater than the arena capacity returns null and
\* changes nothing, and needed is never smaller than n + header_size.
C9_CapacityBound ==
    [][(st = "ok" /\ last'.op = "alloc" /\ last'.n > ARENA_SIZE)
       => (/\ st' = "ok"
           /\ last'.ret = NULL
           /\ mem' = mem
           /\ head' = head
           /\ reg' = reg
           /\ Needed(last'.n) >= last'.n + HEADER_SIZE)]_vars

\* needed as the claim writes it, without the machine word's wrap-around
NeededExact(n) ==
    LET x == n + HEADER_SIZE + ALIGN - 1
    IN  x - (x % ALIGN)

\* C10: realloc(p, n) of a live p with n > 0 and needed <= the block's size
\* returns p; the block stays allocated, with size needed when the tail of
\* old size - needed >= header_size + alignment bytes was split off into the
\* free list, and with its old size otherwise.
C10_ShrinkPreservesAddress ==
    [][(/\ st = "ok"
        /\ last'.op = "realloc"
        /\ last'.ptr \in DOMAIN live
        /\ last'.n > 0
        /\ NeededExact(last'.n) <= mem[BlockOf(last'.ptr)].size)
       => LET b == BlockOf(last'.ptr)
              needed == NeededExact(last'.n)
          IN  /\ st' = "ok"
              /\ last'.ret = last'.ptr
              /\ ~mem'[b].free
              /\ IF mem[b].size - needed >= MIN_SPLIT
                 THEN /\ mem'[b].size = needed
                      /\ Covering([mem |-> mem', head |-> head'], b + needed,
                                  mem[b].size - needed) # {}
                 ELSE mem'[b].size = mem[b].size]_vars

\* the block that begins where the block of p ends
NextPhys(p) == BlockOf(p) + mem[BlockOf(p)].size

\* C11: realloc(p, n) of a live p whose block is smaller than needed and is
\* followed inside the arena by a free-list block that brings it to at least
\* needed returns p; afterwards that neighbour is not in the free list, the
\* block of p has size at least needed, and an excess of at least
\* header_size + alignment bytes is covered by a free block of the list.
C11_InPlaceGrow ==
    [][(/\ st = "ok"
        /\ last'.op = "realloc"
        /\ last'.ptr \in DOMAIN live
        /\ last'.n > 0
        /\ NeededExact(last'.n) > mem[BlockOf(last'.ptr)].size
        /\ NextPhys(last'.ptr) \in FreeNodes(mem, head)
        /\ mem[BlockOf(last'.ptr)].size + mem[NextPhys(last'.ptr)].size
               >= NeededExact(last'.n))
       => LET b == BlockOf(last'.ptr)
              needed == NeededExact(last'.n)
              total == mem[b].size + mem[NextPhys(last'.ptr)].size
          IN  /\ st' = "ok"
              /\ last'.ret = last'.ptr
              /\ NextPhys(last'.ptr) \notin ListNodes(mem', head')
              /\ ~mem'[b].free
              /\ mem'[b].size >= needed
              /\ (total - needed >= MIN_SPLIT)
                   => /\ mem'[b].size = needed
                      /\ Covering([mem |-> mem', head |-> head'], b + needed,
                                  total - needed) # {}]_vars

\* a header field that differs between m1 and m2 lies wholly in the bytes
\* [lo, lo + k): size is at offset 0 and next at offset 8, of 8 bytes each,
\* and free is the byte at offset 16
Changed(m1, m2, lo, k) ==
    \E a \in Slots :
        \/ m1[a].size # m2[a].size /\ lo <= a /\ a + 8 <= lo + k
        \/ m1[a].next # m2[a].next /\ lo <= a + 8 /\ a + 16 <= lo + k
        \/ m1[a].free # m2[a].free /\ lo <= a + 16 /\ a + 17 <= lo + k

\* the steps of realloc's allocate-copy-free path from the current state:
\* after the failed in-place attempt (e), after alloc (a), after free (f)
GrowSteps(p, n) ==
    Let(try_in_place_extend_next_free_block(mem, head, reg, BlockOf(p), Needed(n)),
        LAMBDA e :
    Let(alloc(e.mem, e.head, e.reg, overflow_checks, n), LAMBDA a :
    [e |-> e, a |-> a,
     f |-> free(a.mem, a.head, RegRemove(a.reg, BlockOf(p)), p)]))

\* C12: when realloc(p, bigger) of a live p of requested size old returns a
\* non-null p2, the first old bytes at p2 are the bytes that were at p: in
\* place no header changed by the call lies in them; on the copy path no
\* header changed before the copy lies in the source bytes, the ranges copied
\* do not overlap, and no header changed after the copy lies in the copied
\* bytes.
C12_GrowPreservesContent ==
    [][(/\ st = "ok"
        /\ last'.op = "realloc"
        /\ last'.ptr \in DOMAIN live
        /\ last'.n > live[last'.ptr]
        /\ st' = "ok"
        /\ last'.ret # NULL)
       => LET p == last'.ptr
              p2 == last'.ret
              k == live[p]
              copied == Min((mem[BlockOf(p)].size - HEADER_SIZE) % Mod, last'.n)
          IN  IF p2 = p
              THEN ~Changed(mem, mem', p, k)
              ELSE LET g == GrowSteps(p, last'.n)
                   IN  /\ ~Changed(mem, g.a.mem, p, k)
                       /\ ~Overlap(p, copied, p2, copied)
                       /\ ~Changed(g.a.mem, g.f.mem, p2, k)]_vars

\* C13: every non-null address returned by alloc or realloc is a multiple of
\* the alignment, and the size of every block, live or in the free list, is
\* a multiple of the alignment and at least header_size.
C13_Alignment ==
    st = "ok" =>
        /\ (last.op \in {"alloc", "realloc"} /\ last.ret # NULL)
              => last.ret % ALIGN = 0
        /\ \A b \in LiveBlocks \cup FreeNodes(mem, head) :
              /\ mem[b].size % ALIGN = 0
              /\ mem[b].size >= HEADER_SIZE

\* C14: alloc(0) returns null and leaves the head, every block's size, free
\* and next, and the registry unchanged, also when the free list is empty.
C14_ZeroSizeNoOp ==
    [][(last'.op = "alloc" /\ last'.n = 0)
       => (/\ last'.ret = NULL
           /\ st' = st
           /\ mem' = mem
           /\ head' = head
           /\ reg' = reg)]_vars

\* alloc(0) has just returned in a state whose free list is empty
C14_Witness ==
    /\ st = "ok"
    /\ last.op = "alloc"
    /\ last.n = 0
    /\ last.ret = NULL
    /\ head = NULL
    /\ live # <<>>

\* the allocator's part of the state after a call that ends as o
Becomes(o) ==
    /\ mem' = o.mem
    /\ head' = o.head
    /\ reg' = o.reg
    /\ st' = o.st
    /\ last'.ret = o.ret

\* C15: realloc(null, n) gives the result and the next state of alloc(n),
\* and realloc(p, 0) for a live p returns null and gives the next state of
\* free(p).
C15_ReallocDelegation ==
    [][(last'.op = "realloc")
       => /\ (last'.ptr = NULL)
                => Becomes(alloc(mem, head, reg, overflow_checks, last'.n))
          /\ (last'.ptr \in DOMAIN live /\ last'.n = 0)
                => /\ Becomes(free(mem, head, reg, last'.ptr))
                   /\ last'.ret = NULL]_vars

\* realloc(p, 0) has just freed a live p
C15_Witness ==
    /\ st = "ok"
    /\ last.op = "realloc"
    /\ last.ptr # NULL
    /\ last.n = 0
    /\ last.ret = NULL
    /\ mem[BlockOf(last.ptr)].free
    /\ BlockOf(last.ptr) \in ListNodes(mem, head)

\* C16: after init the head is non-null and is the first aligned address of
\* the arena; the block there is free, links to itself and has the size of
\* the capacity less the alignment padding; no other block exists.
C16_Initialization ==
    last.op = "init" =>
        /\ head # NULL
        /\ head % ALIGN = 0
        /\ head >= ArenaBase
        /\ head - ArenaBase < ALIGN
        /\ mem[head].free
        /\ mem[head].next = head
        /\ mem[head].size = ARENA_SIZE - (head - ArenaBase)
        /\ ListNodes(mem, head) = {head}
        /\ PhysBlocks(mem) = {head}
        /\ \A a \in Slots \ {head} : mem[a].size = 0 /\ ~mem[a].free
        /\ reg = <<>>

\* the state init leaves, before any call
C16_Witness ==
    /\ last.op = "init"
    /\ st = "ok"
    /\ calls = 0
    /\ live = <<>>
    /\ head = ArenaBase

\* C17: calls of two threads take effect one at a time, so two concurrent
\* alloc calls never return the same block: while no block has been freed,
\* the pointers the two threads' last calls returned differ.
C17_MutualExclusion ==
    st = "ok" =>
        \A t, u \in Threads :
            (t # u /\ thr[t].ret # NULL /\ thr[u].ret # NULL)
                => thr[t].ret # thr[u].ret

\* C18: every call of alloc, free and realloc terminates: no walk of the
\* free list runs without end, and a non-null head lies on the cycle reached
\* by following next from it.
C18_Termination ==
    /\ st # "hang"
    /\ (st = "ok" /\ head # NULL)
          => \E a \in ListNodes(mem, head) : mem[a].next = head

\* the list nodes in the order alloc visits them: head.next, ..., head
RECURSIVE VisitFrom(_, _, _, _)
VisitFrom(m, h, a, seq) ==
    IF ~Valid(a) \/ \E i \in 1 .. Len(seq) : seq[i] = a THEN seq
    ELSE IF a = h THEN Append(seq, a)
    ELSE VisitFrom(m, h, m[a].next, Append(seq, a))

VisitOrder(m, h) == IF Valid(h) THEN VisitFrom(m, h, m[h].next, <<>>) ELSE <<>>

\* C19: on a non-empty free list alloc(n), n > 0, takes the first block in
\* the order head.next, ..., head whose size is at least needed and returns
\* its address plus header_size; it returns null exactly when the list holds
\* no such block, and then changes nothing.
C19_FirstFit ==
    [][(st = "ok" /\ last'.op = "alloc" /\ last'.n > 0 /\ head # NULL)
       => LET needed == NeededExact(last'.n)
              seq == VisitOrder(mem, head)
              fits == {i \in 1 .. Len(seq) : mem[seq[i]].size >= needed}
          IN  /\ st' = "ok"
              /\ IF fits = {}
                 THEN /\ last'.ret = NULL
                      /\ mem' = mem
                      /\ head' = head
                      /\ reg' = reg
                 ELSE \E i \in fits :
                         /\ \A j \in fits : i <= j
                         /\ last'.ret = seq[i] + HEADER_SIZE]_vars

\* C20: when alloc takes the free block b of size s: if s - needed >=
\* header_size + alignment, b ends allocated with size needed and a free
\* block of size s - needed at b + needed has b's place in the list (b's
\* predecessor and successor, and the head when b was the head); otherwise b
\* ends allocated with size s and unlinked, its predecessor's next passing it
\* by and the head moved off it; every other node keeps its size and order.
C20_SplitRule ==
    [][(/\ st = "ok"
        /\ st' = "ok"
        /\ last'.op = "alloc"
        /\ last'.ret # NULL
        /\ BlockOf(last'.ret) \in FreeNodes(mem, head))
       => LET b == BlockOf(last'.ret)
              s == mem[b].size
              needed == NeededExact(last'.n)
              nb == b + needed
              others == ListNodes(mem, head) \ {b}
          IN  /\ ~mem'[b].free
              /\ \A a \in others : mem'[a].size = mem[a].size
              /\ \A a \in others : mem[a].next # b => mem'[a].next = mem[a].next
              /\ IF s - needed >= MIN_SPLIT
                 THEN /\ mem'[b].size = needed
                      /\ mem'[nb].free
                      /\ mem'[nb].size = s - needed
                      /\ mem'[nb].next = IF mem[b].next = b THEN nb ELSE mem[b].next
                      /\ \A a \in others : mem[a].next = b => mem'[a].next = nb
                      /\ head' = IF head = b THEN nb ELSE head
                      /\ ListNodes(mem', head') = others \cup {nb}
                 ELSE /\ mem'[b].size = s
                      /\ \A a \in others : mem[a].next = b => mem'[a].next = mem[b].next
                      /\ head' # b
                      /\ b \notin ListNodes(mem', head')
                      /\ ListNodes(mem', head') = others]_vars

\* the call just made freed the live pointer last'.ptr
Freed ==
    /\ st = "ok"
    /\ last'.ptr \in DOMAIN live
    /\ \/ last'.op = "free"
       \/ last'.op = "realloc" /\ last'.n = 0

\* the list node that ends where the block b begins and whose next is the
\* block that begins where b ends, also a list node; NULL when there is none
PredBothSides(b) ==
    LET L == ListNodes(mem, head)
        S == {P \in L : /\ P + mem[P].size = b
                        /\ mem[P].next = b + mem[b].size
                        /\ mem[P].next \in L
                        /\ mem[P].next # P}
    IN  IF S = {} THEN NULL ELSE CHOOSE P \in S : TRUE

\* C21: when free(p) frees a block B whose list predecessor P ends where B
\* begins and whose list successor N begins where B ends, the result is one
\* free block at P of size P.size + B.size + N.size whose next is N's former
\* next (P itself when P and N were the only nodes); B and N are not
\* reachable, the head is a node of the list, also when it was N, and every
\* other node is unchanged.
C21_TwoSidedMerge ==
    [][(Freed /\ PredBothSides(BlockOf(last'.ptr)) # NULL)
       => LET B == BlockOf(last'.ptr)
              P == PredBothSides(B)
              N == mem[P].next
              L == ListNodes(mem, head)
              L2 == ListNodes(mem', head')
          IN  /\ st' = "ok"
              /\ mem'[P].free
              /\ mem'[P].size = mem[P].size + mem[B].size + mem[N].size
              /\ mem'[P].next = IF mem[N].next = P THEN P ELSE mem[N].next
              /\ P \in L2
              /\ B \notin L2
              /\ N \notin L2
              /\ head' \in L2
              /\ head' = IF head = N THEN P ELSE head
              /\ L2 = L \ {N}
              /\ \A a \in L \ {P, N} : mem'[a] = mem[a]]_vars

\* C22: no two physically adjacent blocks are both free: no free block of
\* the list ends where another free block of the list begins.
C22_MaximalCoalescing ==
    st = "ok" =>
        \A f, g \in FreeNodes(mem, head) : f + mem[f].size # g

\* C23: once every live allocation has been freed the free list is one
\* self-linked free block at the aligned base whose size is the whole
\* capacity, as right after init; and at all times the sizes of the
\* free-list blocks and of the live blocks sum to the capacity.
C23_NoLeak ==
    st = "ok" =>
        /\ (live = <<>>)
              => /\ head = init_arena.head
                 /\ ListNodes(mem, head) = {head}
                 /\ mem[head] = init_arena.mem[head]
        /\ SumSizes(mem, FreeNodes(mem, head) \cup LiveBlocks) = ARENA_SIZE
====
